---- MODULE Spec2Model ----
(***************************************************************************)
(* Verification model of the flashcard scheduler: the SM-2 review          *)
(* calculator (lib/sm2.ts), the study-session wrapper around the           *)
(* card_reviews table (fetchDueCards, submitCardReview, updateUserStreak)  *)
(* and the tables they read and write.                                     *)
(*                                                                         *)
(* Numbers.  Ease factors are held in hundredths (2.5 is 250).  Every ease *)
(* factor the program stores is 2.5 changed by the SM-2 deltas, which are  *)
(* all even numbers of hundredths, so the inputs are even hundredths; on   *)
(* that domain, for the intervals and ease factors within the bounds       *)
(* below, Math.round(interval * ease) on IEEE-754 doubles equals the       *)
(* rounding of the exact product used here.                                *)
(*                                                                         *)
(* Time.  The clock counts ticks, TicksPerDay ticks to a calendar day, so  *)
(* that it can advance inside a day.  Date.setDate(getDate() + n) adds n   *)
(* whole days, n * TicksPerDay ticks.                                      *)
(***************************************************************************)
EXTENDS Integers, Sequences, FiniteSets, TLC

\* ---------------------------------------------------------------- bounds
MaxClock == 4            \* the clock runs over 0..MaxClock ticks
TicksPerDay == 2
MinEaseInput == 110      \* calculator inputs: ease factors, in hundredths
MaxEaseInput == 260
MaxIntervalInput == 8    \* calculator inputs: intervals in days
MaxRepetitionsInput == 3 \* calculator inputs: repetitions
MaxCalcClock == 2        \* calculator calls are made at ticks 0..MaxCalcClock

\* ------------------------------------------------------ program constants
MIN_EASE_FACTOR == 130       \* Math.max(1.3, ...)
DEFAULT_EASE_FACTOR == 250   \* ease_factor REAL DEFAULT 2.5
FIRST_INTERVAL == 1
SECOND_INTERVAL == 6
MATURE_INTERVAL == 21
NULL == -1                   \* SQL NULL / undefined in a nullable column

Max(a, b) == IF a >= b THEN a ELSE b

\* ------------------------------------------------------------- lib/sm2.ts
\* QUALITY_RATINGS: the ratings the study buttons submit.
QUALITY_RATINGS == {0, 2, 3, 5}

\* The guard of the validation throw.
InvalidQualityNoLowerBound(quality) == quality > 5
InvalidQuality(quality) == quality < 0 \/ quality > 5

\* 0.1 - (5 - quality) * (0.08 + (5 - quality) * 0.02), in hundredths.
EaseDeltaLinear(quality) == 10 - (5 - quality) * 8
EaseDelta(quality) == 10 - (5 - quality) * (8 + (5 - quality) * 2)

\* newEaseFactor, after Math.max(1.3, ...).
NewEaseFactorNoClamp(quality, easeFactor) == easeFactor + EaseDelta(quality)
NewEaseFactorMinForMax(quality, easeFactor) ==
    IF easeFactor + EaseDelta(quality) < MIN_EASE_FACTOR
    THEN easeFactor + EaseDelta(quality) ELSE MIN_EASE_FACTOR
NewEaseFactor(quality, easeFactor) ==
    Max(MIN_EASE_FACTOR, easeFactor + EaseDelta(quality))

\* newRepetitions.
NewRepetitionsNoReset(quality, repetitions) ==
    IF quality < 3 THEN repetitions ELSE repetitions + 1
NewRepetitions(quality, repetitions) ==
    IF quality < 3 THEN 0 ELSE repetitions + 1

\* Math.round(interval * newEaseFactor): half rounds up (the product is >= 0).
RoundTruncates(interval, newEaseFactor) == (interval * newEaseFactor) \div 100
Round(interval, newEaseFactor) == (interval * newEaseFactor + 50) \div 100

\* newInterval.
NewIntervalNoSecondStep(quality, newRepetitions, interval, newEaseFactor) ==
    IF quality < 3 THEN FIRST_INTERVAL
    ELSE IF newRepetitions = 1 THEN FIRST_INTERVAL
    ELSE Round(interval, newEaseFactor)
NewIntervalZeroOnFailure(quality, newRepetitions, interval, newEaseFactor) ==
    IF quality < 3 THEN 0
    ELSE IF newRepetitions = 1 THEN FIRST_INTERVAL
    ELSE IF newRepetitions = 2 THEN SECOND_INTERVAL
    ELSE Round(interval, newEaseFactor)
NewIntervalIgnoresPrevious(quality, newRepetitions, interval, newEaseFactor) ==
    IF quality < 3 THEN FIRST_INTERVAL
    ELSE IF newRepetitions = 1 THEN FIRST_INTERVAL
    ELSE IF newRepetitions = 2 THEN SECOND_INTERVAL
    ELSE Round(FIRST_INTERVAL, newEaseFactor)
NewInterval(quality, newRepetitions, interval, newEaseFactor) ==
    IF quality < 3 THEN FIRST_INTERVAL
    ELSE IF newRepetitions = 1 THEN FIRST_INTERVAL
    ELSE IF newRepetitions = 2 THEN SECOND_INTERVAL
    ELSE Round(interval, newEaseFactor)

\* nextReviewDate = new Date(); setDate(getDate() + newInterval).
NextReviewDateFromEpoch(clock, newInterval) == newInterval * TicksPerDay
NextReviewDateAddsTicks(clock, newInterval) == clock + newInterval
NextReviewDate(clock, newInterval) == clock + newInterval * TicksPerDay

\* calculateSM2(input), called when the clock reads `clock`.  status "error"
\* is the thrown Error: no new state is returned.
calculateSM2(input, clock) ==
    IF InvalidQuality(input.quality)
    THEN [status |-> "error", interval |-> NULL, repetitions |-> NULL,
          easeFactor |-> NULL, nextReviewDate |-> NULL]
    ELSE LET newEaseFactor == NewEaseFactor(input.quality, input.easeFactor)
             newRepetitions == NewRepetitions(input.quality, input.repetitions)
             newInterval == NewInterval(input.quality, newRepetitions,
                                        input.interval, newEaseFactor)
         IN  [status |-> "ok", interval |-> newInterval,
              repetitions |-> newRepetitions, easeFactor |-> newEaseFactor,
              nextReviewDate |-> NextReviewDate(clock, newInterval)]

\* isCardMature(interval).
isCardMature(interval) == interval >= MATURE_INTERVAL

\* ----------------------------------------------------------------- tables
NumCards == 3            \* cards 1..NumCards
NumStudyCards == 2       \* the cards reviews are submitted for: 1..NumStudyCards
NumDecks == 2            \* decks 1..NumDecks
MaxDueClock == 8         \* due selection: clock and dates within ticks 0..MaxDueClock
NumCalls == 2            \* submitCardReview calls, each made once

Cards == 1..NumCards
StudyCards == 1..NumStudyCards
Qualities == 0..6            \* ratings submitted: 0..5, and 6 (invalid)
Calls == 1..NumCalls
Users == {"learner", "other"}
SessionUser == "learner"     \* session.user.id of every call modelled

Decks == 1..NumDecks
DeckOf(card) == ((card - 1) % NumDecks) + 1   \* cards.deck_id

Day(t) == t \div TicksPerDay \* toISOString().split('T')[0]

\* A card_reviews row with the table defaults, as the creation route inserts it.
DefaultReviewDueTomorrow(card, user, t) ==
    [card_id |-> card, user_id |-> user, ease_factor |-> DEFAULT_EASE_FACTOR,
     interval |-> 0, repetitions |-> 0, next_review_date |-> t + TicksPerDay,
     last_review_date |-> NULL, quality |-> NULL, review_history |-> <<>>,
     is_mature |-> FALSE]
DefaultReview(card, user, t) ==
    [card_id |-> card, user_id |-> user, ease_factor |-> DEFAULT_EASE_FACTOR,
     interval |-> 0, repetitions |-> 0, next_review_date |-> t,
     last_review_date |-> NULL, quality |-> NULL, review_history |-> <<>>,
     is_mature |-> FALSE]

\* A profiles row with the table defaults.
DefaultProfile ==
    [streak_count |-> 0, last_study_date |-> NULL, total_cards_studied |-> 0]

\* ------------------------------------------------------------------ state
VARIABLES
    now,          \* the clock, in ticks
    input,        \* the argument of calculateSM2 (or of calculateStreak)
    result,       \* what the last call made with input returned
    previous,     \* what the call before it returned
    cards,        \* the cards table: the ids of the rows
    card_reviews, \* the card_reviews table: a set of rows
    profiles,     \* the profiles table: user -> row
    calls,        \* the submitCardReview calls: where each one stands
    due,          \* what the last fetchDueCards call returned
    pending_reviews, \* the pending-reviews store of OfflineQueueDB
    syncs         \* the syncPendingReviews runs: where each one stands

vars == <<now, input, result, previous, cards, card_reviews, profiles, calls, due,
         pending_reviews, syncs>>

NoResult == [status |-> "none", interval |-> NULL, repetitions |-> NULL,
             easeFactor |-> NULL, nextReviewDate |-> NULL]
NoInput == [quality |-> 0, repetitions |-> 0, easeFactor |-> DEFAULT_EASE_FACTOR,
            interval |-> 0]
NoReview == DefaultReview(0, "none", 0)
NoProfile == [streak_count |-> NULL, last_study_date |-> NULL]
\* syncPendingReviews: the runs, and a run that has not started.  reviews is
\* what getAll returned, i the position of the loop over it, submitted the
\* entries whose submitCardReview returned.
NumSyncs == 2
Syncs == 1..NumSyncs
NoSyncs == [s \in Syncs |-> [pc |-> "idle", reviews |-> <<>>, i |-> 0,
                             submitted |-> {}]]
NoDue == [status |-> "none", asOf |-> NULL, deckId |-> NULL, cards |-> <<>>]
DueError(error, asOf, deckId) ==
    [status |-> error, asOf |-> asOf, deckId |-> deckId, cards |-> <<>>]
IdleCall == [pc |-> "idle", cardId |-> 0, quality |-> NULL,
             currentReview |-> NoReview, profile |-> NoProfile, outcome |-> "none"]

\* The clock advances.
Tick ==
    /\ now < MaxClock
    /\ now' = now + 1
    /\ UNCHANGED <<input, result, previous, card_reviews, profiles, calls, due, cards, pending_reviews, syncs>>

\* ------------------------------------------- the calculator on its inputs
EaseInputs == {e \in MinEaseInput..MaxEaseInput : e % 2 = 0}
SM2Inputs == [quality : -1..6, repetitions : 0..MaxRepetitionsInput,
              easeFactor : EaseInputs, interval : 0..MaxIntervalInput]

CalcInit ==
    /\ now = 0
    /\ input \in SM2Inputs
    /\ result = NoResult
    /\ previous = NoResult
    /\ card_reviews = {}
    /\ profiles = [u \in Users |-> DefaultProfile]
    /\ calls = [p \in Calls |-> IdleCall]
    /\ due = NoDue
    /\ cards = {r.card_id : r \in card_reviews}
    /\ pending_reviews = {}
    /\ syncs = NoSyncs

\* One call of calculateSM2 on the input, at the present clock value.
CalcCall ==
    /\ result' = calculateSM2(input, now)
    /\ previous' = result
    /\ UNCHANGED <<now, input, card_reviews, profiles, calls, due, cards, pending_reviews, syncs>>

\* The clock of the calculator's calls runs over 0..MaxCalcClock.
CalcTick ==
    /\ now < MaxCalcClock
    /\ now' = now + 1
    /\ UNCHANGED <<input, result, previous, card_reviews, profiles, calls, due, cards, pending_reviews, syncs>>

CalcNext == CalcCall \/ CalcTick

SpecCalc == CalcInit /\ [][CalcNext]_vars

\* ------------------------------------------------ lib/study-session.ts
\* The rows of (cardId, session user): .eq('card_id').eq('user_id').
ReviewsOf(cardId) ==
    {r \in card_reviews : r.card_id = cardId /\ r.user_id = SessionUser}

\* A call that has returned or thrown keeps its outcome only; a call keeps no
\* local the code does not read again (a failed select keeps the card it
\* asked for).
Finish(p, outcome) == [calls EXCEPT ![p] = [IdleCall EXCEPT !.pc = "done",
                                                            !.outcome = outcome]]

\* submitCardReview, up to the end of the select: getSession, then
\* .select('*').eq('card_id').eq('user_id').single().
SubmitFetchDefaultsMissing(p, cardId, quality, authed, storeFails) ==
    /\ calls[p].pc = "idle"
    /\ calls' =
         IF ~authed THEN Finish(p, "NotAuthenticated")
         ELSE IF storeFails \/ Cardinality(ReviewsOf(cardId)) > 1
              THEN [Finish(p, "fetchError") EXCEPT ![p].cardId = cardId]
              ELSE [calls EXCEPT ![p].pc = "fetched", ![p].cardId = cardId,
                                 ![p].quality = quality,
                                 ![p].currentReview =
                                     IF ReviewsOf(cardId) = {}
                                     THEN DefaultReview(cardId, SessionUser, now)
                                     ELSE CHOOSE r \in ReviewsOf(cardId) : TRUE]
    /\ UNCHANGED <<now, input, result, previous, card_reviews, profiles, due, cards, pending_reviews, syncs>>
SubmitFetch(p, cardId, quality, authed, storeFails) ==
    /\ calls[p].pc = "idle"
    /\ calls' =
         IF ~authed THEN Finish(p, "NotAuthenticated")
         ELSE IF storeFails \/ Cardinality(ReviewsOf(cardId)) # 1
              THEN [Finish(p, "fetchError") EXCEPT ![p].cardId = cardId]
              ELSE [calls EXCEPT ![p].pc = "fetched", ![p].cardId = cardId,
                                 ![p].quality = quality,
                                 ![p].currentReview =
                                     CHOOSE r \in ReviewsOf(cardId) : TRUE]
    /\ UNCHANGED <<now, input, result, previous, card_reviews, profiles, due, cards, pending_reviews, syncs>>

\* The update payload built from the calculator's result; the wrapper reads
\* the clock again for last_review_date (at t1) and the history entry (at t2).
ReviewUpdateKeepsMature(r, currentReview, quality, sm2Result, t1, t2) ==
    [r EXCEPT !.ease_factor = sm2Result.easeFactor,
              !.interval = sm2Result.interval,
              !.repetitions = sm2Result.repetitions,
              !.next_review_date = sm2Result.nextReviewDate,
              !.last_review_date = t1,
              !.quality = quality,
              !.review_history = Append(currentReview.review_history,
                  [date |-> t2, quality |-> quality,
                   interval |-> sm2Result.interval])]
ReviewUpdate(r, currentReview, quality, sm2Result, t1, t2) ==
    [r EXCEPT !.ease_factor = sm2Result.easeFactor,
              !.interval = sm2Result.interval,
              !.repetitions = sm2Result.repetitions,
              !.next_review_date = sm2Result.nextReviewDate,
              !.last_review_date = t1,
              !.quality = quality,
              !.is_mature = (sm2Result.interval >= MATURE_INTERVAL),
              !.review_history = Append(currentReview.review_history,
                  [date |-> t2, quality |-> quality,
                   interval |-> sm2Result.interval])]

\* submitCardReview from the select's answer to the end of the update:
\* calculateSM2 on the row that was read, then .update(...).eq().eq().
SubmitUpdate(p, t1, t2, storeFails) ==
    /\ calls[p].pc = "fetched"
    /\ now <= t1 /\ t1 <= t2 /\ t2 <= MaxClock
    /\ LET cur == calls[p].currentReview
           sm2Result == calculateSM2([quality |-> calls[p].quality,
                                      repetitions |-> cur.repetitions,
                                      easeFactor |-> cur.ease_factor,
                                      interval |-> cur.interval], now)
       IN  IF sm2Result.status = "error"
           THEN /\ t1 = now /\ t2 = now
                /\ calls' = Finish(p, "InvalidQuality")
                /\ UNCHANGED <<now, card_reviews>>
           ELSE IF storeFails
           THEN /\ calls' = Finish(p, "updateError")
                /\ now' = t2
                /\ UNCHANGED card_reviews
           ELSE /\ card_reviews' =
                     {IF r \in ReviewsOf(calls[p].cardId)
                      THEN ReviewUpdate(r, cur, calls[p].quality, sm2Result, t1, t2)
                      ELSE r : r \in card_reviews}
                /\ now' = t2
                /\ calls' = [calls EXCEPT ![p] = [IdleCall EXCEPT !.pc = "updated"]]
    /\ UNCHANGED <<input, result, previous, profiles, due, cards, pending_reviews, syncs>>

\* updateUserStreak, the select: .select('last_study_date, streak_count').
StreakRead(p) ==
    /\ calls[p].pc = "updated"
    /\ calls' = [calls EXCEPT ![p].pc = "streakRead",
                   ![p].profile =
                       [streak_count |-> profiles[SessionUser].streak_count,
                        last_study_date |-> profiles[SessionUser].last_study_date]]
    /\ UNCHANGED <<now, input, result, previous, card_reviews, profiles, due, cards, pending_reviews, syncs>>

\* newStreak, from the profile that was read, today and yesterdayStr.
NewStreakAlwaysIncrements(profile, today, yesterdayStr) ==
    IF profile.last_study_date # today THEN profile.streak_count + 1
    ELSE profile.streak_count
NewStreak(profile, today, yesterdayStr) ==
    IF profile.last_study_date = yesterdayStr THEN profile.streak_count + 1
    ELSE IF profile.last_study_date # today THEN 1
    ELSE profile.streak_count

\* updateUserStreak after the select: today is read from the clock at t1 and
\* yesterday from the clock at t2.  total_cards_studied was not selected, so
\* profile.total_cards_studied + 1 is NaN, which the request carries as null.
StreakWriteNoSameDayCheck(p, t1, t2) ==
    /\ calls[p].pc = "streakRead"
    /\ now <= t1 /\ t1 <= t2 /\ t2 <= MaxClock
    /\ profiles' = [profiles EXCEPT ![SessionUser] =
           [streak_count |->
                IF calls[p].profile.last_study_date = Day(t2) - 1
                THEN calls[p].profile.streak_count + 1 ELSE 1,
            last_study_date |-> Day(t1),
            total_cards_studied |-> NULL]]
    /\ now' = t2
    /\ calls' = Finish(p, "ok")
    /\ UNCHANGED <<input, result, previous, card_reviews, due, cards, pending_reviews, syncs>>
StreakWriteIncrementsStored(p, t1, t2) ==
    /\ calls[p].pc = "streakRead"
    /\ now <= t1 /\ t1 <= t2 /\ t2 <= MaxClock
    /\ LET today == Day(t1)
           yesterdayStr == Day(t2) - 1
       IN  IF calls[p].profile.last_study_date # today
           THEN /\ profiles' = [profiles EXCEPT ![SessionUser] =
                      [streak_count |->
                           IF calls[p].profile.last_study_date = yesterdayStr
                           THEN profiles[SessionUser].streak_count + 1 ELSE 1,
                       last_study_date |-> today,
                       total_cards_studied |-> NULL]]
                /\ now' = t2
           ELSE /\ t1 = now /\ t2 = now
                /\ UNCHANGED <<now, profiles>>
    /\ calls' = Finish(p, "ok")
    /\ UNCHANGED <<input, result, previous, card_reviews, due, cards, pending_reviews, syncs>>
StreakWrite(p, t1, t2) ==
    /\ calls[p].pc = "streakRead"
    /\ now <= t1 /\ t1 <= t2 /\ t2 <= MaxClock
    /\ LET today == Day(t1)
           yesterdayStr == Day(t2) - 1
       IN  IF calls[p].profile.last_study_date # today
           THEN /\ profiles' = [profiles EXCEPT ![SessionUser] =
                      [streak_count |->
                           NewStreak(calls[p].profile, today, yesterdayStr),
                       last_study_date |-> today,
                       total_cards_studied |-> NULL]]
                /\ now' = t2
           ELSE /\ t1 = now /\ t2 = now
                /\ UNCHANGED <<now, profiles>>
    /\ calls' = Finish(p, "ok")
    /\ UNCHANGED <<input, result, previous, card_reviews, due, cards, pending_reviews, syncs>>

\* ------------------------------------------------------ the study session
Init ==
    /\ now = 0
    /\ input = NoInput
    /\ result = NoResult
    /\ previous = NoResult
    /\ \E created \in SUBSET StudyCards :
         card_reviews = {DefaultReview(c, SessionUser, 0) : c \in created}
                        \cup {DefaultReview(1, "other", 0)}
    /\ profiles = [u \in Users |-> DefaultProfile]
    /\ calls = [p \in Calls |-> IdleCall]
    /\ due = NoDue
    /\ cards = {r.card_id : r \in card_reviews}
    /\ pending_reviews = {}
    /\ syncs = NoSyncs

ClockReads == now..(IF now < MaxClock THEN now + 1 ELSE now)

Next ==
    \/ Tick
    \/ \E p \in Calls, cardId \in StudyCards, quality \in Qualities,
          authed \in BOOLEAN, storeFails \in BOOLEAN :
         SubmitFetch(p, cardId, quality, authed, storeFails)
    \/ \E p \in Calls, t1 \in ClockReads, t2 \in ClockReads, storeFails \in BOOLEAN :
         SubmitUpdate(p, t1, t2, storeFails)
    \/ \E p \in Calls : StreakRead(p)
    \/ \E p \in Calls, t1 \in ClockReads, t2 \in ClockReads : StreakWrite(p, t1, t2)

Spec == Init /\ [][Next]_vars

\* ---------------------------------------------------------- fetchDueCards
\* .eq('user_id', session.user.id).lte('next_review_date', now)
DueReviewsStrictlyBefore(asOf) ==
    {r \in card_reviews : r.user_id = SessionUser /\ r.next_review_date < asOf}
DueReviews(asOf) ==
    {r \in card_reviews : r.user_id = SessionUser /\ r.next_review_date <= asOf}

\* .order('next_review_date', { ascending: true }): the rows in an order the
\* sort allows; rows with equal dates come in whatever order the store picks.
OrderedDescending(rows) ==
    {s \in [1..Cardinality(rows) -> rows] :
        /\ \A i, j \in 1..Cardinality(rows) : i # j => s[i] # s[j]
        /\ \A i, j \in 1..Cardinality(rows) :
             i < j => s[i].next_review_date >= s[j].next_review_date}
Ordered(rows) ==
    {s \in [1..Cardinality(rows) -> rows] :
        /\ \A i, j \in 1..Cardinality(rows) : i # j => s[i] # s[j]
        /\ \A i, j \in 1..Cardinality(rows) :
             i < j => s[i].next_review_date <= s[j].next_review_date}

\* .eq('cards.deck_id', deckId) filters the embedded cards object, not the
\* card_reviews rows: a row whose card is in another deck comes with cards null.
EmbeddedCard(r, deckId) ==
    IF deckId = NULL \/ DeckOf(r.card_id) = deckId THEN r.card_id ELSE NULL

\* fetchDueCards(deckId); deckId NULL is the call without a deck.  data.map
\* reads item.cards.id, which throws on a null cards object.
FetchDueCards(deckId, authed, storeFails) ==
    /\ IF ~authed THEN due' = DueError("NotAuthenticated", now, deckId)
       ELSE IF storeFails THEN due' = DueError("queryError", now, deckId)
       ELSE \E data \in Ordered(DueReviews(now)) :
              due' = IF \E i \in DOMAIN data : EmbeddedCard(data[i], deckId) = NULL
                     THEN DueError("TypeError", now, deckId)
                     ELSE [status |-> "ok", asOf |-> now, deckId |-> deckId,
                           cards |-> [i \in DOMAIN data |->
                                         EmbeddedCard(data[i], deckId)]]
    /\ UNCHANGED <<now, input, result, previous, card_reviews, profiles, calls, cards, pending_reviews, syncs>>

\* The clock of the due selection runs over 0..MaxDueClock.  The selection
\* reads the table and the clock and writes nothing a later step reads, so the
\* clock is followed up to the instant of the selection and not beyond it.
DueTick ==
    /\ due = NoDue
    /\ now < MaxDueClock
    /\ now' = now + 1
    /\ UNCHANGED <<input, result, previous, card_reviews, profiles, calls, due, cards, pending_reviews, syncs>>

\* Any card_reviews table: at most one row per (card, user), the learner's
\* rows due on any day, with one row of another user.
DueDates == {t \in 0..MaxDueClock : t % TicksPerDay = 0}
DueInit ==
    /\ now = 0
    /\ input = NoInput
    /\ result = NoResult
    /\ previous = NoResult
    /\ \E mine \in [Cards -> DueDates \cup {NULL}], theirs \in {NULL, 0} :
         card_reviews =
             {DefaultReview(c, SessionUser, mine[c]) : c \in {k \in Cards : mine[k] # NULL}}
             \cup {DefaultReview(1, "other", theirs) : x \in {k \in {1} : theirs # NULL}}
    /\ profiles = [u \in Users |-> DefaultProfile]
    /\ calls = [p \in Calls |-> IdleCall]
    /\ due = NoDue
    /\ cards = {r.card_id : r \in card_reviews}
    /\ pending_reviews = {}
    /\ syncs = NoSyncs

DueNext ==
    \/ DueTick
    \/ \E deckId \in Decks \cup {NULL}, authed \in BOOLEAN, storeFails \in BOOLEAN :
         FetchDueCards(deckId, authed, storeFails)

SpecDue == DueInit /\ [][DueNext]_vars

\* ------------------------------------------- one card, reviewed in turn
MaxReviews == 4          \* reviews of the card, one after the other
MaxChainClock == 2       \* these reviews are made at ticks 0..MaxChainClock

\* The profile updateUserStreak leaves, from the profile it read.
StreakUpdate(profile, today, yesterdayStr) ==
    IF profile.last_study_date # today
    THEN [streak_count |-> NewStreak(profile, today, yesterdayStr),
          last_study_date |-> today,
          total_cards_studied |-> NULL]
    ELSE profile

\* One submitCardReview from its call to its return with no other call in
\* between: select, calculateSM2, update, updateUserStreak.  The clock is
\* read by the calculator (now), for last_review_date (t1), for the history
\* entry (t2), for today (t3) and for yesterday (t4).
SubmitCardReviewWrites(cardId, quality, t1, t2, t3, t4) ==
    /\ Cardinality(ReviewsOf(cardId)) = 1
    /\ now <= t1 /\ t1 <= t2 /\ t2 <= t3 /\ t3 <= t4 /\ t4 <= MaxChainClock
    /\ LET cur == CHOOSE r \in ReviewsOf(cardId) : TRUE
           sm2Result == calculateSM2([quality |-> quality,
                                      repetitions |-> cur.repetitions,
                                      easeFactor |-> cur.ease_factor,
                                      interval |-> cur.interval], now)
       IN  /\ Len(cur.review_history) < MaxReviews
           /\ sm2Result.status = "ok"
           /\ card_reviews' =
                {IF r \in ReviewsOf(cardId)
                 THEN ReviewUpdate(r, cur, quality, sm2Result, t1, t2)
                 ELSE r : r \in card_reviews}
           /\ profiles' = [profiles EXCEPT ![SessionUser] =
                  StreakUpdate(profiles[SessionUser], Day(t3), Day(t4) - 1)]
           /\ now' = t4

SubmitCardReviewAlone(cardId, quality, t1, t2, t3, t4) ==
    /\ SubmitCardReviewWrites(cardId, quality, t1, t2, t3, t4)
    /\ UNCHANGED <<input, result, previous, calls, due, cards, pending_reviews, syncs>>

ChainTick ==
    /\ now < MaxChainClock
    /\ now' = now + 1
    /\ UNCHANGED <<input, result, previous, card_reviews, profiles, calls, due, cards, pending_reviews, syncs>>

ChainInit ==
    /\ now = 0
    /\ input = NoInput
    /\ result = NoResult
    /\ previous = NoResult
    /\ card_reviews = {DefaultReview(1, SessionUser, 0)}
    /\ profiles = [u \in Users |-> DefaultProfile]
    /\ calls = [p \in Calls |-> IdleCall]
    /\ due = NoDue
    /\ cards = {r.card_id : r \in card_reviews}
    /\ pending_reviews = {}
    /\ syncs = NoSyncs

ChainClockReads == now..(IF now < MaxChainClock THEN now + 1 ELSE now)

ChainNext ==
    \/ ChainTick
    \/ \E quality \in Qualities, t1 \in ChainClockReads, t2 \in ChainClockReads,
          t3 \in ChainClockReads, t4 \in ChainClockReads :
         SubmitCardReviewAlone(1, quality, t1, t2, t3, t4)

SpecChain == ChainInit /\ [][ChainNext]_vars

\* ------------------------------------------- updateUserStreak on its own
NumStreakCalls == 3      \* updateUserStreak calls, each made once

MaxInitStreak == 2       \* the learner starts with a streak of 0..MaxInitStreak days

StreakCalls == 1..NumStreakCalls

\* The profiles updateUserStreak can find: the one the table defaults give,
\* or one it wrote itself, here after a study on day 0.
StreakProfiles ==
    {DefaultProfile} \cup
    {[streak_count |-> s, last_study_date |-> 0, total_cards_studied |-> NULL] :
        s \in 1..MaxInitStreak}

\* submitCardReview has written its row and calls updateUserStreak.
StreakCall(p) ==
    /\ calls[p].pc = "idle"
    /\ calls' = [calls EXCEPT ![p].pc = "updated"]
    /\ UNCHANGED <<now, input, result, previous, card_reviews, profiles, due, cards, pending_reviews, syncs>>

StreakInit ==
    /\ now = 0
    /\ input = NoInput
    /\ result = NoResult
    /\ previous = NoResult
    /\ card_reviews = {DefaultReview(1, SessionUser, 0)}
    /\ \E profile \in StreakProfiles :
         profiles = [u \in Users |->
                        IF u = SessionUser THEN profile ELSE DefaultProfile]
    /\ calls = [p \in StreakCalls |-> IdleCall]
    /\ due = NoDue
    /\ cards = {r.card_id : r \in card_reviews}
    /\ pending_reviews = {}
    /\ syncs = NoSyncs

StreakNext ==
    \/ Tick
    \/ \E p \in StreakCalls : StreakCall(p)
    \/ \E p \in StreakCalls : StreakRead(p)
    \/ \E p \in StreakCalls, t1 \in ClockReads, t2 \in ClockReads :
         StreakWrite(p, t1, t2)

SpecStreak == StreakInit /\ [][StreakNext]_vars

\* The same calls, all made on day 1 by a learner who has never studied or
\* last studied on day 0.
SameDayInit ==
    /\ now = TicksPerDay
    /\ input = NoInput
    /\ result = NoResult
    /\ previous = NoResult
    /\ card_reviews = {DefaultReview(1, SessionUser, 0)}
    /\ \E profile \in StreakProfiles :
         profiles = [u \in Users |->
                        IF u = SessionUser THEN profile ELSE DefaultProfile]
    /\ calls = [p \in StreakCalls |-> IdleCall]
    /\ due = NoDue
    /\ cards = {r.card_id : r \in card_reviews}
    /\ pending_reviews = {}
    /\ syncs = NoSyncs

SpecSameDay == SameDayInit /\ [][StreakNext]_vars

\* -------------------------------------------------------- calculateStreak
MaxDates == 4            \* study dates in the list
MaxDatesClock == 5       \* study dates and today within ticks 0..MaxDatesClock

\* startOfDay(d): the calendar day of an instant.
startOfDay(d) == Day(d)

\* differenceInDays(a, b) of two day starts.
differenceInDays(a, b) == a - b

\* studyDates.map(d => startOfDay(d)).sort((a, b) => b - a): every entry is
\* kept, the latest day first.
RECURSIVE SortDescending(_)
SortDescending(dates) ==
    IF dates = <<>> THEN <<>>
    ELSE LET latest == CHOOSE d \in {dates[i] : i \in DOMAIN dates} :
                          \A i \in DOMAIN dates : dates[i] <= d
             at == CHOOSE i \in DOMAIN dates : dates[i] = latest
             rest == [i \in 1..(Len(dates) - 1) |->
                         IF i < at THEN dates[i] ELSE dates[i + 1]]
         IN  <<latest>> \o SortDescending(rest)

\* The first loop: walk down from today while the next entry is the same
\* day as checkDate or the day before it.
RECURSIVE CurrentStreakFrom(_, _, _, _)
CurrentStreakFrom(sorted, i, checkDate, currentStreak) ==
    IF i > Len(sorted) THEN currentStreak
    ELSE LET diff == differenceInDays(checkDate, sorted[i])
         IN  IF diff = 0 \/ diff = 1
             THEN CurrentStreakFrom(sorted, i + 1, sorted[i], currentStreak + 1)
             ELSE currentStreak

\* The second loop, from index i (0-based i is i - 1 here), and the final
\* Math.max(longestStreak, tempStreak).
RECURSIVE LongestStreakFrom(_, _, _, _)
LongestStreakFrom(sorted, i, tempStreak, longestStreak) ==
    IF i > Len(sorted) - 1 THEN Max(longestStreak, tempStreak)
    ELSE LET diff == differenceInDays(sorted[i], sorted[i + 1])
         IN  IF diff = 1
             THEN LongestStreakFrom(sorted, i + 1, tempStreak + 1,
                                    Max(longestStreak, tempStreak + 1))
             ELSE LongestStreakFrom(sorted, i + 1, 1, longestStreak)

\* calculateStreak(studyDates), called when the clock reads `clock`.
calculateStreak(studyDates, clock) ==
    IF Len(studyDates) = 0
    THEN [currentStreak |-> 0, longestStreak |-> 0,
          lastStudyDate |-> clock, studyDates |-> <<>>]
    ELSE LET sorted == SortDescending([i \in DOMAIN studyDates |->
                                          startOfDay(studyDates[i])])
             today == startOfDay(clock)
         IN  [currentStreak |-> CurrentStreakFrom(sorted, 1, today, 0),
              longestStreak |-> LongestStreakFrom(sorted, 1, 1, 0),
              lastStudyDate |-> sorted[1],
              studyDates |-> sorted]

\* A further study date, not after the clock, is added to the list and the
\* streak is calculated from the extended list; `previous` keeps the result
\* for the list before.
StudyDateAdded(d) ==
    /\ Len(input) < MaxDates
    /\ d <= now
    /\ input' = Append(input, d)
    /\ previous' = result
    /\ result' = calculateStreak(input', now)
    /\ UNCHANGED <<now, card_reviews, profiles, calls, due, cards, pending_reviews, syncs>>

DatesTick ==
    /\ now < MaxDatesClock
    /\ now' = now + 1
    /\ UNCHANGED <<input, result, previous, card_reviews, profiles, calls, due, cards, pending_reviews, syncs>>

DatesInit ==
    /\ now = 0
    /\ input = <<>>
    /\ result = calculateStreak(<<>>, 0)
    /\ previous = calculateStreak(<<>>, 0)
    /\ card_reviews = {}
    /\ profiles = [u \in Users |-> DefaultProfile]
    /\ calls = [p \in Calls |-> IdleCall]
    /\ due = NoDue
    /\ cards = {r.card_id : r \in card_reviews}
    /\ pending_reviews = {}
    /\ syncs = NoSyncs

DatesNext ==
    \/ DatesTick
    \/ \E d \in 0..MaxDatesClock : StudyDateAdded(d)

SpecDates == DatesInit /\ [][DatesNext]_vars

\* ------------------------------------------------------ POST cards/create
\* Where the route can stop: no session (401), word not in the dictionary
\* (404), a thrown error of a lookup, an error of one of the three inserts.
CreateFailures ==
    {"none", "Unauthorized", "NotFound", "lookup", "mainCard", "reverseCard",
     "card_reviews"}

\* The route's response; the error of the card_reviews insert is not read.
CreateResponse(failure) ==
    [status |-> CASE failure = "Unauthorized" -> 401
                  [] failure = "NotFound" -> 404
                  [] failure \in {"lookup", "mainCard", "reverseCard"} -> 500
                  [] OTHER -> 200]

\* The ids the two inserted cards get: ids no stored card has.
FreshCard(used) == CHOOSE c \in Cards \ used : \A d \in Cards \ used : c <= d

\* POST cards/create from the request to the response.  The two rows of the
\* card_reviews insert carry one clock read each (t1, t2); the insert is one
\* statement, so it stores both rows or none.
CreateCards(failure, t1, t2) ==
    /\ now <= t1 /\ t1 <= t2 /\ t2 <= MaxChainClock
    /\ result' = CreateResponse(failure)
    /\ IF failure \in {"Unauthorized", "NotFound", "lookup", "mainCard"}
       THEN /\ t1 = now /\ t2 = now
            /\ UNCHANGED <<now, cards, card_reviews>>
       ELSE IF failure = "reverseCard"
       THEN /\ t1 = now /\ t2 = now
            /\ Cards \ cards # {}
            /\ cards' = cards \cup {FreshCard(cards)}
            /\ UNCHANGED <<now, card_reviews>>
       ELSE /\ Cardinality(Cards \ cards) >= 2
            /\ LET mainCard == FreshCard(cards)
                   reverseCard == FreshCard(cards \cup {mainCard})
               IN  /\ cards' = cards \cup {mainCard, reverseCard}
                   /\ card_reviews' =
                        IF failure = "card_reviews" THEN card_reviews
                        ELSE card_reviews \cup
                               {DefaultReview(mainCard, SessionUser, t1),
                                DefaultReview(reverseCard, SessionUser, t2)}
            /\ now' = t2
    /\ UNCHANGED <<input, previous, profiles, calls, due, pending_reviews, syncs>>

\* The first review of a card that has not been reviewed.
FirstReview(cardId, quality, t1, t2, t3, t4) ==
    /\ \E r \in ReviewsOf(cardId) : r.last_review_date = NULL
    /\ SubmitCardReviewAlone(cardId, quality, t1, t2, t3, t4)

CreateInit ==
    /\ now = 0
    /\ input = NoInput
    /\ result = NoResult
    /\ previous = NoResult
    /\ cards = {}
    /\ pending_reviews = {}
    /\ syncs = NoSyncs
    /\ card_reviews = {}
    /\ profiles = [u \in Users |-> DefaultProfile]
    /\ calls = [p \in Calls |-> IdleCall]
    /\ due = NoDue

CreateNext ==
    \/ ChainTick
    \/ \E failure \in CreateFailures, t1 \in ChainClockReads, t2 \in ChainClockReads :
         CreateCards(failure, t1, t2)
    \/ \E cardId \in Cards, quality \in Qualities,
          t1 \in ChainClockReads, t2 \in ChainClockReads,
          t3 \in ChainClockReads, t4 \in ChainClockReads :
         FirstReview(cardId, quality, t1, t2, t3, t4)

SpecCreate == CreateInit /\ [][CreateNext]_vars

\* ------------------------------------------------- the offline review queue
\* OfflineQueueDB: queueReview, syncPendingReviews and the 'online' listener.
MaxQueued == 2           \* entries of pending-reviews at one time
QueuedQualities == {0, 3}  \* the ratings given while offline: again, good

\* An entry of pending-reviews: the value {cardId, quality, timestamp} under
\* the key `${cardId}-${Date.now()}`.  The value's timestamp and the key's
\* are two reads of the clock.
PendingReview(cardId, quality, timestamp, keyTime) ==
    [key |-> <<cardId, keyTime>>, cardId |-> cardId, quality |-> quality,
     timestamp |-> timestamp]

\* db.put: the value replaces what the key held.
Put(store, entry) == {e \in store : e.key # entry.key} \cup {entry}

\* db.delete: a key the store does not hold deletes nothing.
Delete(store, key) == {e \in store : e.key # key}

\* db.getAll: the values in the order of their keys.
KeyBefore(a, b) == a[1] < b[1] \/ (a[1] = b[1] /\ a[2] <= b[2])
RECURSIVE GetAll(_)
GetAll(store) ==
    IF store = {} THEN <<>>
    ELSE LET first == CHOOSE e \in store :
                        \A f \in store : KeyBefore(e.key, f.key)
         IN  <<first>> \o GetAll(store \ {first})

queueReview(cardId, quality, t1, t2) ==
    /\ Cardinality(pending_reviews) < MaxQueued
    /\ now <= t1 /\ t1 <= t2 /\ t2 <= MaxChainClock
    /\ pending_reviews' =
         Put(pending_reviews, PendingReview(cardId, quality, t1, t2))
    /\ now' = t2
    /\ UNCHANGED <<input, result, previous, cards, card_reviews, profiles, calls, due, syncs>>

\* The loop of syncPendingReviews moves to the next review, or ends.
NextReview(run) ==
    IF run.i < Len(run.reviews)
    THEN [run EXCEPT !.pc = "submit", !.i = run.i + 1]
    ELSE [run EXCEPT !.pc = "done"]

\* syncPendingReviews up to the return of getAll.  The 'online' listener
\* starts a run whatever the other runs are doing.
SyncGetAll(s) ==
    /\ syncs[s].pc = "idle"
    /\ syncs' = [syncs EXCEPT ![s] =
         NextReview([pc |-> "idle", reviews |-> GetAll(pending_reviews),
                     i |-> 0, submitted |-> {}])]
    /\ UNCHANGED <<now, input, result, previous, cards, card_reviews, profiles, calls, due, pending_reviews>>

\* await submitCardReview(review.cardId, review.quality), which returned.
SyncSubmit(s, t1, t2, t3, t4) ==
    /\ syncs[s].pc = "submit"
    /\ LET review == syncs[s].reviews[syncs[s].i]
       IN  /\ SubmitCardReviewWrites(review.cardId, review.quality, t1, t2, t3, t4)
           /\ syncs' = [syncs EXCEPT ![s].pc = "delete",
                                     ![s].submitted = @ \cup {review}]
    /\ UNCHANGED <<input, result, previous, cards, calls, due, pending_reviews>>

\* submitCardReview threw: the catch logs and the loop goes on.
SyncSubmitThrows(s) ==
    /\ syncs[s].pc = "submit"
    /\ syncs' = [syncs EXCEPT ![s] = NextReview(syncs[s])]
    /\ UNCHANGED <<now, input, result, previous, cards, card_reviews, profiles, calls, due, pending_reviews>>

\* await db.delete('pending-reviews', `${review.cardId}-${review.timestamp}`)
SyncDelete(s) ==
    /\ syncs[s].pc = "delete"
    /\ LET review == syncs[s].reviews[syncs[s].i]
       IN  pending_reviews' =
             Delete(pending_reviews, <<review.cardId, review.timestamp>>)
    /\ syncs' = [syncs EXCEPT ![s] = NextReview(syncs[s])]
    /\ UNCHANGED <<now, input, result, previous, cards, card_reviews, profiles, calls, due>>

SyncInit ==
    /\ now = 0
    /\ input = NoInput
    /\ result = NoResult
    /\ previous = NoResult
    /\ card_reviews = {DefaultReview(1, SessionUser, 0)}
    /\ profiles = [u \in Users |-> DefaultProfile]
    /\ calls = [p \in Calls |-> IdleCall]
    /\ due = NoDue
    /\ cards = {r.card_id : r \in card_reviews}
    /\ pending_reviews = {}
    /\ syncs = NoSyncs

SyncNext ==
    \/ ChainTick
    \/ \E cardId \in cards, quality \in QueuedQualities,
          t1 \in ChainClockReads, t2 \in ChainClockReads :
         queueReview(cardId, quality, t1, t2)
    \/ \E s \in Syncs : SyncGetAll(s)
    \/ \E s \in Syncs, t1 \in ChainClockReads, t2 \in ChainClockReads,
          t3 \in ChainClockReads, t4 \in ChainClockReads :
         SyncSubmit(s, t1, t2, t3, t4)
    \/ \E s \in Syncs : SyncSubmitThrows(s)
    \/ \E s \in Syncs : SyncDelete(s)

SpecSync == SyncInit /\ [][SyncNext]_vars

\* ============================================================== properties
\* The calculator's input and result of a call that returned a new state.
Returned == result.status = "ok"

\* C1: for every quality in 0..5 and every input state, the ease factor
\* calculateSM2 returns is at least 1.3.
C1_EaseFactorAtLeastMinimum ==
    Returned => result.easeFactor >= 130

\* C1 witness: a call whose unclamped ease factor would be below 1.3.
C1_Witness ==
    /\ Returned
    /\ input.easeFactor = 170 /\ input.quality = 0
    /\ result.easeFactor = 130

\* C1 on the stored state (specification Spec): every stored Review State
\* has easeFactor >= 1.3.
C1_StoredEaseFactorAtLeastMinimum ==
    \A r \in card_reviews : r.ease_factor >= 130

\* C2: for every input state and every quality in {0,1,2}, calculateSM2
\* returns repetitions = 0 and interval = 1.
C2_FailureResets ==
    (Returned /\ input.quality \in {0, 1, 2})
        => (result.repetitions = 0 /\ result.interval = 1)

\* C2 witness: a failed review of a state with a streak and a long interval.
C2_Witness ==
    /\ Returned /\ input.quality = 2
    /\ input.repetitions = 3 /\ input.interval = 8
    /\ result.repetitions = 0 /\ result.interval = 1

\* C2 on the stored state (specification Spec): every stored Review State
\* whose last submitted quality is < 3 has repetitions = 0 and interval = 1.
C2_StoredFailureResets ==
    \A r \in card_reviews :
        r.quality \in {0, 1, 2} => (r.repetitions = 0 /\ r.interval = 1)

\* C3: for every quality in {3,4,5}, a review of a state with repetitions 0
\* yields repetitions 1 and interval 1, and a review of a state with
\* repetitions 1 yields repetitions 2 and interval 6, whatever the previous
\* interval and ease factor.
C3_FirstAndSecondSuccess ==
    (Returned /\ input.quality \in {3, 4, 5})
        => /\ input.repetitions = 0
                => (result.repetitions = 1 /\ result.interval = 1)
           /\ input.repetitions = 1
                => (result.repetitions = 2 /\ result.interval = 6)

\* C3 witness: a second success from an interval and ease factor that the
\* result does not follow.
C3_Witness ==
    /\ Returned /\ input.quality = 4
    /\ input.repetitions = 1 /\ input.interval = 8 /\ input.easeFactor = 130
    /\ result.repetitions = 2 /\ result.interval = 6

\* C4: for every quality in {3,4,5} and every state with repetitions >= 2,
\* calculateSM2 returns repetitions + 1 and the interval nearest to
\* (previous interval * new ease factor), a half rounding upwards.
C4_LaterSuccessMultiplies ==
    (Returned /\ input.quality \in {3, 4, 5} /\ input.repetitions >= 2)
        => /\ result.repetitions = input.repetitions + 1
           /\ 100 * result.interval - 50 <= input.interval * result.easeFactor
           /\ input.interval * result.easeFactor < 100 * result.interval + 50

\* C4 witness: a product that ends in exactly one half, with an ease factor
\* that this review changed.
C4_Witness ==
    /\ Returned /\ input.quality = 3 /\ input.repetitions = 2
    /\ input.interval = 5 /\ input.easeFactor = 164
    /\ result.easeFactor = 150 /\ result.interval = 8 /\ result.repetitions = 3

\* C5: reviewing {easeFactor 2.5, interval 6, repetitions 2} with quality 3
\* yields {easeFactor 2.5, interval 15, repetitions 3}.
C5_GoodReviewExample ==
    (Returned /\ input = [quality |-> 3, repetitions |-> 2,
                          easeFactor |-> 250, interval |-> 6])
        => (result.easeFactor = 250 /\ result.interval = 15
            /\ result.repetitions = 3)

\* The change of the ease factor that C6 lists for each quality, in hundredths.
C6_Change(quality) ==
    CASE quality = 5 -> 10  [] quality = 4 -> 0    [] quality = 3 -> -14
      [] quality = 2 -> -32 [] quality = 1 -> -54  [] quality = 0 -> -80

\* C6: for every quality q in 0..5 and every ease factor e, pass or fail, the
\* new ease factor is max(1.3, e + change(q)) with the changes +0.10, 0,
\* -0.14, -0.32, -0.54, -0.80 for q = 5..0; {2.5, 0, 0} with quality 0 yields
\* ease 1.7, interval 1, repetitions 0.
C6_EaseFactorUpdate ==
    Returned =>
        /\ result.easeFactor =
               IF input.easeFactor + C6_Change(input.quality) < 130 THEN 130
               ELSE input.easeFactor + C6_Change(input.quality)
        /\ input = [quality |-> 0, repetitions |-> 0,
                    easeFactor |-> 250, interval |-> 0]
             => (result.easeFactor = 170 /\ result.interval = 1
                 /\ result.repetitions = 0)

\* C6 witness: the review of the initial state with quality 0.
C6_Witness ==
    /\ Returned
    /\ input = [quality |-> 0, repetitions |-> 0,
                easeFactor |-> 250, interval |-> 0]
    /\ result.easeFactor = 170

\* C7: calculateSM2 fails, returning no new state, for every quality outside
\* 0..5 and for no quality inside 0..5, whatever the other inputs.
C7_OnlyQualityIsValidated ==
    result.status # "none" =>
        /\ input.quality \notin 0..5 =>
             (result.status = "error" /\ result.easeFactor = NULL
              /\ result.interval = NULL /\ result.repetitions = NULL)
        /\ input.quality \in 0..5 => result.status = "ok"

\* C7 witness: a call with quality -1 has failed.
C7_Witness ==
    input.quality = -1 /\ result.status = "error"

C9_AtomicReadModifyWrite ==
    [][\A p \in Calls :
          (calls[p].pc = "fetched" /\ calls'[p].pc = "updated")
              => calls[p].currentReview \in card_reviews]_vars

\* The learner's cards whose stored next_review_date is not after asOf.
C10_DueAt(asOf) ==
    {c \in Cards : \E r \in card_reviews :
        r.card_id = c /\ r.user_id = SessionUser /\ r.next_review_date <= asOf}

\* C10: the due selection without a deck returns exactly the learner's cards
\* whose nextReviewAt <= asOf, none later and none missing; it does not fail
\* on its own account, an empty selection included.
C10_DueExactlyUpToAsOf ==
    due.deckId = NULL =>
        /\ due.status # "TypeError"
        /\ due.status = "ok" =>
             {due.cards[i] : i \in DOMAIN due.cards} = C10_DueAt(due.asOf)

\* C10 witness: states due at T-3d, T-1d and T+1d, selected at asOf = T.
C10_Witness ==
    /\ due.status = "ok" /\ due.deckId = NULL
    /\ due.asOf = 3 * TicksPerDay
    /\ \A c \in 1..3 : \E r \in card_reviews :
          /\ r.card_id = c /\ r.user_id = SessionUser
          /\ r.next_review_date = (2 * (c - 1)) * TicksPerDay
    /\ due.cards = <<1, 2>>

\* C10 witness of the empty selection: nothing due, and no error.
C10_EmptyIsNormal ==
    /\ due.status = "ok" /\ due.cards = <<>>
    /\ \E r \in card_reviews : r.user_id = SessionUser

\* The stored next_review_date of the learner's Review State of a card.
DueDateOf(c) ==
    (CHOOSE r \in card_reviews : r.card_id = c /\ r.user_id = SessionUser)
        .next_review_date

\* C11: the sequence the due selection returns is non-decreasing in
\* nextReviewAt: for positions i < j, the i-th card is due no later than the
\* j-th.
C11_DueOrderedByDate ==
    due.status = "ok" =>
        \A i, j \in DOMAIN due.cards :
            i < j => DueDateOf(due.cards[i]) <= DueDateOf(due.cards[j])

\* C11 witness: three due cards returned in date order, which is not the
\* order of their identifiers.
C11_Witness ==
    /\ due.status = "ok" /\ due.cards = <<3, 1, 2>>
    /\ DueDateOf(3) < DueDateOf(1) /\ DueDateOf(1) < DueDateOf(2)

\* C12: two selections over the same states and the same asOf return the same
\* sequence, cards with equal nextReviewAt included.
C12_SameSelectionSameSequence ==
    [][(due.status = "ok" /\ due'.status = "ok"
        /\ due'.asOf = due.asOf /\ due'.deckId = due.deckId
        /\ card_reviews' = card_reviews)
          => due'.cards = due.cards]_vars

\* The learner's cards of a deck whose next_review_date is not after asOf.
C13_DueInDeck(deckId, asOf) ==
    {c \in Cards : /\ DeckOf(c) = deckId
                   /\ \E r \in card_reviews :
                        /\ r.card_id = c /\ r.user_id = SessionUser
                        /\ r.next_review_date <= asOf}

\* C13: with a deck given, the due selection returns the learner's due cards
\* of that deck, all of them and no others; without one, the learner's due
\* cards of all decks.
C13_DueScopedToDeck ==
    /\ (due.deckId # NULL /\ due.status \notin {"none", "NotAuthenticated", "queryError"})
         => /\ due.status = "ok"
            /\ {due.cards[i] : i \in DOMAIN due.cards}
                   = C13_DueInDeck(due.deckId, due.asOf)
    /\ (due.deckId = NULL /\ due.status = "ok")
         => {due.cards[i] : i \in DOMAIN due.cards} = C10_DueAt(due.asOf)

\* C14: a stored Review State that has been reviewed has next_review_date =
\* last_review_date + interval days, and one that has not been reviewed has
\* the next_review_date it was created with (rows are created at tick 0).
C14_NextReviewIsLastPlusInterval ==
    \A r \in card_reviews :
        IF r.last_review_date = NULL
        THEN r.next_review_date = 0
        ELSE r.next_review_date = r.last_review_date + r.interval * TicksPerDay

IsPrefix(s, t) == Len(s) <= Len(t) /\ SubSeq(t, 1, Len(s)) = s

\* C15: at every step the review_history of each stored row before the step
\* is a prefix of its review_history after the step, and a step that changes
\* a row adds exactly one entry to it.
C15_HistoryAppendOnly ==
    [][\A r \in card_reviews : \E r2 \in card_reviews' :
           /\ r2.card_id = r.card_id /\ r2.user_id = r.user_id
           /\ IsPrefix(r.review_history, r2.review_history)
           /\ r2 # r => Len(r2.review_history) = Len(r.review_history) + 1]_vars

\* C18: a submitCardReview for a card the learner has no Review State of
\* ends at the select with an error: it never reaches the calculator, and the
\* step leaves every stored Review State and the streak record as they were.
C18_MissingStateIsAnError ==
    [][\A p \in Calls :
          (/\ calls[p].pc = "idle" /\ calls'[p].pc # "idle"
           /\ ReviewsOf(calls'[p].cardId) = {})
             => /\ calls'[p].pc = "done"
                /\ calls'[p].outcome \in {"fetchError", "NotAuthenticated"}
                /\ card_reviews' = card_reviews
                /\ profiles' = profiles]_vars

\* C18 witness: an authenticated call for card 2, which has no Review State,
\* has ended with the select's error while card 1 has been reviewed.
C18_Witness ==
    /\ ReviewsOf(2) = {}
    /\ \E p \in Calls : /\ calls[p].pc = "done"
                        /\ calls[p].outcome = "fetchError"
                        /\ calls[p].cardId = 2
    /\ \E r \in ReviewsOf(1) : r.repetitions = 1

\* C16: isCardMature(interval) is true exactly when interval >= 21, and in
\* every stored Review State, from creation through any reviews, is_mature
\* is true exactly when the stored interval is at least 21.
C16_MatureIffIntervalAtLeast21 ==
    /\ \A interval \in 0..(2 * MATURE_INTERVAL) :
          isCardMature(interval) <=> interval >= 21
    /\ \A r \in card_reviews :
          /\ r.is_mature <=> r.interval >= 21
          /\ r.is_mature <=> isCardMature(r.interval)

\* C16 witness: after four reviews the card is stored as mature.
C16_Witness ==
    \E r \in card_reviews :
        r.is_mature /\ r.interval >= 21 /\ Len(r.review_history) = 4

\* C17: in every Review State reached from (2.5, 0, 0) by reviews of quality
\* 0..5, repetitions >= 1 implies interval >= 1, and interval 0 occurs only
\* in the state that has never been reviewed.
C17_ReviewedIntervalPositive ==
    \A r \in card_reviews :
        /\ r.repetitions >= 1 => r.interval >= 1
        /\ r.interval = 0 =>
              r.last_review_date = NULL /\ r.review_history = <<>>

\* C17 witness: three successes, the third by the multiplication, then a
\* failure: repetitions are back to 0 and the interval is 1, not 0.
C17_Witness ==
    \E r \in card_reviews :
        /\ Len(r.review_history) = 4
        /\ r.review_history[3].interval > SECOND_INTERVAL
        /\ r.review_history[4].quality < 3
        /\ r.repetitions = 0 /\ r.interval = FIRST_INTERVAL

\* C19: a run of updateUserStreak that records a study on the calendar date
\* equal to the last_study_date it read changes nothing: streak_count and
\* last_study_date stay as the first run of that day left them.
C19_SameDayStudyChangesNothing ==
    [][\A p \in DOMAIN calls :
          (/\ calls[p].pc = "streakRead" /\ calls'[p].pc = "done"
           /\ calls[p].profile.last_study_date = Day(now'))
             => profiles' = profiles]_vars

\* C19 witness: three runs have ended over two days, so two of them were on
\* one day, and the streak counts the two days.
C19_Witness ==
    /\ \A p \in DOMAIN calls : calls[p].pc = "done" /\ calls[p].outcome = "ok"
    /\ Cardinality(DOMAIN calls) = NumStreakCalls
    /\ Day(now) = 1
    /\ profiles[SessionUser].last_study_date = 1
    /\ profiles[SessionUser].streak_count = 2

\* C20: a run of updateUserStreak that records a study on the day after the
\* last_study_date it read writes streak_count + 1 and the new date.
C20_NextDayStudyIncrements ==
    [][\A p \in DOMAIN calls :
          (/\ calls[p].pc = "streakRead" /\ calls'[p].pc = "done"
           /\ calls[p].profile.last_study_date # NULL
           /\ profiles'[SessionUser].last_study_date
                 = calls[p].profile.last_study_date + 1
           /\ profiles' # profiles)
             => profiles'[SessionUser].streak_count
                   = calls[p].profile.streak_count + 1]_vars

\* C21: a run of updateUserStreak that read no last_study_date, or one more
\* than a day before the study date, writes streak_count 1, whatever the
\* streak_count it read, and the study date as last_study_date.
C21_GapOrFirstStudyResets ==
    [][\A p \in DOMAIN calls :
          (/\ calls[p].pc = "streakRead" /\ calls'[p].pc = "done"
           /\ \/ calls[p].profile.last_study_date = NULL
              \/ calls[p].profile.last_study_date + 1 < Day(now))
             => /\ profiles'[SessionUser].streak_count = 1
                /\ profiles'[SessionUser].last_study_date \in Day(now)..Day(now')]_vars

\* C21 witness: the only run so far recorded a study on day 2, for a learner
\* who had never studied or had last studied on day 0: the streak is 1.
C21_Witness ==
    /\ \E p \in DOMAIN calls :
          /\ calls[p].pc = "done" /\ calls[p].outcome = "ok"
          /\ \A q \in DOMAIN calls \ {p} : calls[q].pc = "idle"
    /\ Cardinality(DOMAIN calls) = NumStreakCalls
    /\ profiles[SessionUser].last_study_date = 2
    /\ profiles[SessionUser].streak_count = 1

\* C22: calculateStreak on a list extended by one more study date returns a
\* longestStreak no smaller than for the list before, and in every result
\* longestStreak >= currentStreak.
C22_LongestStreakNeverDecreases ==
    /\ result.longestStreak >= previous.longestStreak
    /\ result.longestStreak >= result.currentStreak

\* C23: a Review State the creation route inserts has ease factor 2.5,
\* interval 0, repetitions 0, no last review and the route's clock read as
\* next_review_date, and as long as it has not been reviewed it is due at
\* every instant from its creation on.
C23_CreatedStateIsDueAtOnce ==
    [][/\ \A r \in card_reviews' \ card_reviews :
             r.last_review_date = NULL =>
                /\ r.user_id = SessionUser
                /\ r.ease_factor = 250 /\ r.interval = 0 /\ r.repetitions = 0
                /\ r.review_history = <<>> /\ ~r.is_mature
                /\ r.next_review_date \in now..now'
       /\ \A r \in card_reviews' :
             r.last_review_date = NULL => r.next_review_date <= now']_vars

\* C23 witness: card 1 was created at tick 0 and is still due, unreviewed,
\* at tick 2, while card 2, created with it, has had its first review and is
\* due later.
C23_Witness ==
    /\ now = 2
    /\ \E r \in ReviewsOf(1) :
          r.last_review_date = NULL /\ r.next_review_date = 0
    /\ \E r \in ReviewsOf(2) :
          r.last_review_date # NULL /\ r.next_review_date > now

\* C30: every stored card has exactly one Review State of the learner who
\* created it, whatever the creation route returned.
C30_EveryCardHasOneReviewState ==
    \A c \in cards : Cardinality(ReviewsOf(c)) = 1

C25_NotDueForADayAfterCompletion ==
    [][\A r \in card_reviews' \ card_reviews :
          r.last_review_date # NULL
             => r.next_review_date >= now' + TicksPerDay]_vars

\* C25, as the code has it: the next_review_date a submitCardReview stores
\* is interval >= 1 days after the instant the calculator read the clock, so
\* the row is not due at any asOf less than a day after that instant, the
\* instant of completion included.
C25_NotDueForADayAfterCalculation ==
    [][\A r \in card_reviews' \ card_reviews :
          r.last_review_date # NULL
             => /\ r.interval >= 1
                /\ r.next_review_date = now + r.interval * TicksPerDay
                /\ \A asOf \in now..(now + TicksPerDay - 1) :
                      ~(r.next_review_date <= asOf)
                /\ ~(r.next_review_date <= now')]_vars

\* C25 witness: a review with interval 1 whose call ended a tick after the
\* calculator read the clock: the row is due less than a day after the
\* completion, and not yet.
C25_Witness ==
    \E r \in card_reviews :
        /\ r.last_review_date # NULL /\ r.interval = 1
        /\ now < r.next_review_date
        /\ r.next_review_date < now + TicksPerDay

\* C26: a review with quality >= 3 never stores an interval smaller than the
\* one the row had, and a review that shortens the interval has quality < 3
\* and shortens it to 1.
C26_SuccessNeverShortens ==
    [][\A r \in card_reviews : \A r2 \in card_reviews' \ card_reviews :
          (r2.card_id = r.card_id /\ r2.user_id = r.user_id)
             => /\ r2.quality >= 3 => r2.interval >= r.interval
                /\ r2.interval < r.interval
                      => r2.quality < 3 /\ r2.interval = FIRST_INTERVAL]_vars

\* C26 witness: a fourth success of quality 3, with the lowered ease factor,
\* still lengthens the interval the third one gave.
C26_Witness ==
    \E r \in card_reviews :
        /\ Len(r.review_history) = 4 /\ r.repetitions = 4
        /\ r.review_history[4].quality = 3
        /\ r.review_history[3].interval > SECOND_INTERVAL
        /\ r.interval > r.review_history[3].interval

\* C27: when the runs of updateUserStreak of one learner are all made on one
\* calendar day, interleaved at the profile read and the profile write, the
\* first write of the day sets streak_count to at most 1 more than the value
\* it read, and every later write of that day leaves the profile as it is:
\* the streak is never raised twice for one day.
C27_SameDayRunsRaiseStreakOnce ==
    [][Day(now') = 1 =>
          /\ profiles'[SessionUser].last_study_date
                = profiles[SessionUser].last_study_date
               => profiles' = profiles
          /\ \A p \in DOMAIN calls :
                (calls[p].pc = "streakRead" /\ calls'[p].pc = "done")
                   => profiles'[SessionUser].streak_count
                         <= calls[p].profile.streak_count + 1]_vars

\* C27 witness: one run has raised the streak from 1 to 2 on day 1 while
\* another run still holds the profile it read before that write.
C27_Witness ==
    /\ Day(now) = 1
    /\ profiles[SessionUser].last_study_date = 1
    /\ profiles[SessionUser].streak_count = 2
    /\ \E p, q \in DOMAIN calls :
          /\ calls[p].pc = "done" /\ calls[p].outcome = "ok"
          /\ calls[q].pc = "streakRead"
          /\ calls[q].profile.last_study_date = 0
          /\ calls[q].profile.streak_count = 1

\* The dates of all reviews of a row, as its review_history lists them.
ReviewDates(r) == [i \in DOMAIN r.review_history |-> r.review_history[i].date]

\* C28: on the day of the latest review, the streak_count updateUserStreak
\* has maintained equals the currentStreak calculateStreak computes from the
\* dates of all reviews so far.
C28_StreakImplementationsAgree ==
    \A r \in card_reviews :
        (/\ r.review_history # <<>>
         /\ Day(now) = Day(ReviewDates(r)[Len(r.review_history)]))
           => profiles[SessionUser].streak_count
                 = calculateStreak(ReviewDates(r), now).currentStreak

\* C29: a review that queueReview placed in the offline queue is applied by
\* submitCardReview at most once over all the runs of syncPendingReviews,
\* overlapping ones included: a run's submitCardReview returns for a queued
\* review only if no other run's submitCardReview has returned for it.
C29_QueuedReviewAppliedAtMostOnce ==
    [][\A s \in Syncs :
         (syncs[s].pc = "submit" /\ syncs'[s].pc = "delete") =>
           \A other \in Syncs \ {s} :
             syncs[s].reviews[syncs[s].i] \notin syncs[other].submitted]_vars

====
